---- MODULE Spec2Model ----
(***************************************************************************)
(* Model of the gravitas toolchain core: the semantic analyzer            *)
(* (crates/analyzer), the bytecode generator with its chunk               *)
(* (crates/bytecode) and the jump handling of the virtual machine         *)
(* (crates/vm).                                                           *)
(*                                                                         *)
(* The analyzer is a recursive AST walk in which every nested call is     *)
(* made with `?`.  It is modelled by an explicit continuation stack: a    *)
(* frame is a resume point of visit_expr / visit_stmt together with the   *)
(* node it works on.  An error returned by any visit unwinds all frames   *)
(* up to the loop of Analyzer::analyze, which pushes the error.           *)
(***************************************************************************)
EXTENDS Integers, Sequences, FiniteSets, TLC

VARIABLES
    scopes,     \* Analyzer.scopes: Vec<Scope>
    errors,     \* the `errors` vector local to Analyzer::analyze
    stack,      \* pending resume points of visit_stmt / visit_expr (head = next)
    analyzed,   \* number of AST nodes taken from the ast iterator so far
    returned,   \* result of Analyzer::analyze: "none" while running, then "Ok" / "Err"
    chunk,      \* BytecodeGenerator: the chunk being written (opcodes, constants)
    state,      \* BytecodeGenerator.state: the generator's scope stack
    work,       \* pending resume points of BytecodeFrom::generate (head = next)
    generated,  \* number of AST nodes handed to the generator so far
    patched,    \* the patches applied so far: handle index and the index patched to
    writes,     \* the calls of write_opcode / write_constant so far, in order
    functions,  \* the enclosing functions in progress, innermost last
    globals,    \* the functions compiled so far
    closed,     \* the scope the generator state left last
    evaluated,  \* the operation on values applied last, with its result
    marks,      \* where the code of each statement starts and each initializer ends
    vm          \* VM: status, instruction pointer, outcome of the last jump,
                \* length of the operand stack

\* the analyzer
avars == <<scopes, errors, stack, analyzed, returned>>

\* the generator and the machine
gvars == <<chunk, state, work, generated, patched, writes, functions, globals, closed,
           evaluated, marks, vm>>

vars == <<avars, gvars>>

----------------------------------------------------------------------------
(* Bounds of the checked inputs *)

\* number of AST nodes of an analyzed program
MaxSize == 7

----------------------------------------------------------------------------
(* Abstract syntax: parser::parse::expr::{Expr, ExprKind}, stmt::{Stmt, StmtKind} *)

\* Option<T>: None is <<>>, Some(v) is <<v>>
None == <<>>

Some(v) == <<v>>

Identifier(name, span) ==
    [kind |-> "Atom", val |-> [tag |-> "Identifier", name |-> name], span |-> span]

NumberAtom(span) == [kind |-> "Atom", val |-> [tag |-> "Number"], span |-> span]

BooleanAtom(b, span) ==
    [kind |-> "Atom", val |-> [tag |-> "Boolean", value |-> b], span |-> span]

ThisAtom(span) == [kind |-> "Atom", val |-> [tag |-> "This"], span |-> span]

SuperAtom(span) == [kind |-> "Atom", val |-> [tag |-> "Super"], span |-> span]

Binary(lhs, rhs, span) ==
    [kind |-> "Binary", lhs |-> lhs, rhs |-> rhs, span |-> span]

Unary(rhs, span) == [kind |-> "Unary", rhs |-> rhs, span |-> span]

Block(stmts, return_expr, span) ==
    [kind |-> "Block", stmts |-> stmts, return_expr |-> return_expr, span |-> span]

While(condition, body, span) ==
    [kind |-> "While", condition |-> condition, body |-> body, span |-> span]

Continue(span) == [kind |-> "Continue", span |-> span]

Break(return_expr, span) ==
    [kind |-> "Break", return_expr |-> return_expr, span |-> span]

Return(value, span) == [kind |-> "Return", value |-> value, span |-> span]

Call(callee, args, span) ==
    [kind |-> "Call", callee |-> callee, args |-> args, span |-> span]

If(condition, body, else_expr, span) ==
    [kind |-> "If", condition |-> condition, body |-> body,
     else_expr |-> else_expr, span |-> span]

Array(values, span) == [kind |-> "Array", values |-> values, span |-> span]

Index(target, position, span) ==
    [kind |-> "Index", target |-> target, position |-> position, span |-> span]

GetProperty(target, span) ==
    [kind |-> "GetProperty", target |-> target, span |-> span]

SetProperty(target, value, span) ==
    [kind |-> "SetProperty", target |-> target, value |-> value, span |-> span]

ObjectLiteral(properties, span) ==
    [kind |-> "ObjectLiteral", properties |-> properties, span |-> span]

Assignment(target, value, span) ==
    [kind |-> "Assignment", target |-> target, value |-> value, span |-> span]

Closure(params, body, span) ==
    [kind |-> "Closure", params |-> params, body |-> body, span |-> span]

VariableDeclaration(name, expr, span) ==
    [kind |-> "VariableDeclaration", name |-> name, expr |-> expr, span |-> span]

FunctionDeclaration(name, params, body, span) ==
    [kind |-> "FunctionDeclaration", name |-> name, params |-> params,
     body |-> body, span |-> span]

Expression(expr, span) == [kind |-> "Expression", expr |-> expr, span |-> span]

----------------------------------------------------------------------------
(* The analyzed programs: sequences of top-level statements of at most     *)
(* MaxSize AST nodes in total.  A top-level statement is one of the three  *)
(* statement kinds around an expression: scoping constructs nested around  *)
(* an innermost expression, or one expression of each remaining kind.      *)
(* Spans are half-open ranges <<lo, hi>>.                                  *)

\* span of an innermost expression
CoreSpan == <<2 * MaxSize + 2, 2 * MaxSize + 3>>

Before(span) == <<span[1] - 1, span[1]>>

After(span) == <<span[2], span[2] + 1>>

Around(span) == <<span[1] - 2, span[2] + 2>>

\* innermost expressions: reads of the program variable x, of an undeclared
\* name, of a native function, of a function and of its parameter; a literal;
\* the control-flow keywords; this and super
Cores ==
    { Identifier("x", CoreSpan), Identifier("u", CoreSpan),
      Identifier("print", CoreSpan), Identifier("f", CoreSpan),
      Identifier("a", CoreSpan), NumberAtom(CoreSpan),
      Break(None, CoreSpan), Continue(CoreSpan), Return(None, CoreSpan),
      ThisAtom(CoreSpan), SuperAtom(CoreSpan) }

\* while (true) c
WWhile(c) == While(BooleanAtom(TRUE, Before(c.span)), c, Around(c.span))

\* if (true) { c }
WIf(c) ==
    If(BooleanAtom(TRUE, Before(c.span)),
       Block(<<>>, Some(c), <<c.span[1], c.span[2] + 1>>), None, Around(c.span))

\* || c
WClosure(c) == Closure(<<>>, c, Around(c.span))

\* { let x = c; x }
WLet(c) ==
    Block(<<VariableDeclaration("x", c, <<c.span[1] - 1, c.span[2]>>)>>,
          Some(Identifier("x", After(c.span))), Around(c.span))

\* the nested expressions of at most n nodes
RECURSIVE Nested(_)
Nested(n) ==
    IF n < 1 THEN {}
    ELSE Cores \cup { WClosure(c) : c \in Nested(n - 1) }
               \cup { WWhile(c) : c \in Nested(n - 2) }
               \cup { WIf(c) : c \in Nested(n - 3) }
               \cup { WLet(c) : c \in Nested(n - 3) }

\* expressions of the kinds that only visit their children, and the
\* remaining shapes of while, break, return and function declaration
Others ==
    LET c == Identifier("u", CoreSpan)
        l == Identifier("x", Before(CoreSpan))
        r == Identifier("print", After(CoreSpan))
        sp == Around(CoreSpan)
    IN  { Binary(c, r, sp), Binary(l, c, sp), Binary(c, c, sp), Unary(c, sp),
          Call(l, <<c, r>>, sp), Call(c, <<l>>, sp),
          If(l, r, Some(c), sp), If(c, l, Some(Break(None, After(CoreSpan))), sp),
          Array(<<l, c, r>>, sp), Index(l, c, sp), Index(c, r, sp),
          GetProperty(c, sp), GetProperty(l, sp),
          SetProperty(l, c, sp), SetProperty(c, r, sp),
          ObjectLiteral(<<<<"k", l>>, <<"m", c>>>>, sp),
          Assignment(l, c, sp), Assignment(c, r, sp),
          Break(Some(c), sp), Return(Some(c), sp),
          While(Break(None, Before(CoreSpan)), NumberAtom(CoreSpan), sp),
          While(c, Continue(After(CoreSpan)), sp),
          While(BooleanAtom(TRUE, Before(CoreSpan)),
                Block(<<FunctionDeclaration("f", <<>>, Break(None, After(CoreSpan)),
                                            <<CoreSpan[1], CoreSpan[2] + 1>>)>>,
                      None, <<CoreSpan[1], CoreSpan[2] + 2>>),
                <<sp[1], sp[2] + 1>>) }

\* the direct sub-nodes of a node, statements and expressions
SubNodes(node) ==
    CASE node.kind = "Atom" -> <<>>
      [] node.kind = "Continue" -> <<>>
      [] node.kind = "Binary" -> <<node.lhs, node.rhs>>
      [] node.kind = "Unary" -> <<node.rhs>>
      [] node.kind = "Block" -> node.stmts \o node.return_expr
      [] node.kind = "While" -> <<node.condition, node.body>>
      [] node.kind = "Break" -> node.return_expr
      [] node.kind = "Return" -> node.value
      [] node.kind = "Call" -> <<node.callee>> \o node.args
      [] node.kind = "If" -> <<node.condition, node.body>> \o node.else_expr
      [] node.kind = "Array" -> node.values
      [] node.kind = "Index" -> <<node.target, node.position>>
      [] node.kind = "GetProperty" -> <<node.target>>
      [] node.kind = "SetProperty" -> <<node.target, node.value>>
      [] node.kind = "ObjectLiteral" ->
            [i \in 1..Len(node.properties) |-> node.properties[i][2]]
      [] node.kind = "Assignment" -> <<node.target, node.value>>
      [] node.kind = "Closure" -> <<node.body>>
      [] node.kind = "VariableDeclaration" -> <<node.expr>>
      [] node.kind = "FunctionDeclaration" -> <<node.body>>
      [] node.kind = "Expression" -> <<node.expr>>

\* number of nodes of a tree / of a sequence of trees
RECURSIVE Size(_), SizeAll(_)
Size(node) == 1 + SizeAll(SubNodes(node))

SizeAll(nodes) ==
    IF nodes = <<>> THEN 0 ELSE Size(Head(nodes)) + SizeAll(Tail(nodes))

Exprs == Nested(MaxSize - 1) \cup { e \in Others : Size(e) < MaxSize }

Stmts ==
    { Expression(e, <<e.span[1], e.span[2] + 1>>) : e \in Exprs }
        \cup { VariableDeclaration("x", e, <<e.span[1] - 1, e.span[2] + 1>>) : e \in Exprs }
        \cup { FunctionDeclaration("f", <<"a">>, e, <<e.span[1] - 1, e.span[2]>>) : e \in Exprs }

\* the statements that fit into what is left of MaxSize after n nodes
StmtsFitting == [n \in 0..MaxSize |-> { s \in Stmts : n + Size(s) <= MaxSize }]

StmtsAfter(n) == StmtsFitting[n]

----------------------------------------------------------------------------
(* Analyzer state: crates/analyzer/src/lib.rs *)

\* vm::gravitas_std::NATIVE_FUNCTIONS.keys()
NATIVE_FUNCTIONS == {"print"}

\* HashMap::new()
EmptyVariables == [n \in {} |-> TRUE]

\* Scope::new
NewScope(scope_type) == [scope_type |-> scope_type, variables |-> EmptyVariables]

\* Scope::global
GlobalScope(global_variables) ==
    [scope_type |-> "Global", variables |-> global_variables]

is_function(scope) == scope.scope_type = "Function"

is_loop(scope) == scope.scope_type = "Loop"

\* Analyzer::new: the global scope seeded with the native functions, initialized
AnalyzerNew == <<GlobalScope([n \in NATIVE_FUNCTIONS |-> TRUE])>>

\* HashMap::insert
Insert(variables, name, value) ==
    [n \in DOMAIN variables \cup {name} |-> IF n = name THEN value ELSE variables[n]]

current_scope(scs) == scs[Len(scs)]

\* declare_var that records every name as initialized
declare_var_always_initialized(scs, name, initialized) ==
    [scs EXCEPT ![Len(scs)].variables = Insert(@, name, TRUE)]

\* Analyzer::declare_var: insert into the variables of the current scope
declare_var(scs, name, initialized) ==
    [scs EXCEPT ![Len(scs)].variables = Insert(@, name, initialized)]

\* Analyzer::find_var: innermost scope that has the name; Option<&bool> as
\* "None" / "Some(false)" / "Some(true)"
RECURSIVE find_from(_, _, _)
find_from(scs, i, name) ==
    IF i = 0 THEN "None"
    ELSE IF name \in DOMAIN scs[i].variables
         THEN (IF scs[i].variables[name] THEN "Some(true)" ELSE "Some(false)")
         ELSE find_from(scs, i - 1, name)

find_var(scs, name) == find_from(scs, Len(scs), name)

enter_scope(scs, scope_type) == Append(scs, NewScope(scope_type))

leave_scope(scs) == SubSeq(scs, 1, Len(scs) - 1)

\* the `err` closure of visit_expr: the expression's span is both ends
ParseError(cause, span) ==
    [span_start |-> span, span_end |-> span, cause |-> cause]

----------------------------------------------------------------------------
(* Opcodes and chunks: crates/bytecode/src/chunk.rs.  Indexes into a chunk  *)
(* count from 0, as in the source; the opcode at index i is opcodes[i + 1]. *)

\* an opcode without payload
Op(name) == [op |-> name]

OpConstant(index) == [op |-> "Constant", arg |-> index]

OpJif(offset) == [op |-> "Jif", arg |-> offset]

OpJp(offset) == [op |-> "Jp", arg |-> offset]

OpBreak(offset) == [op |-> "Break", arg |-> offset]

OpBlock(declared) == [op |-> "Block", arg |-> declared]

OpGetProperty(bind_method) == [op |-> "GetProperty", arg |-> bind_method]

OpSetProperty(arity) == [op |-> "SetProperty", arg |-> arity]

OpCreateObject(amount) == [op |-> "CreateObject", arg |-> amount]

ConstantNumber == [tag |-> "Number"]

ConstantString(text) == [tag |-> "String", text |-> text]

ConstantLocal(slot) == [tag |-> "MemoryAddress", local |-> slot]

\* Constant::MemoryAddress(MemoryAddress::Upvalue { index, is_ref })
ConstantUpvalue(index, is_ref) ==
    [tag |-> "MemoryAddress", upvalue |-> index, is_ref |-> is_ref]

ConstantGlobalPointer(pointer) == [tag |-> "GlobalPointer", pointer |-> pointer]

OpCreateClosure(upvalues_count) == [op |-> "CreateClosure", arg |-> upvalues_count]

\* Chunk::default
ChunkDefault == [opcodes |-> <<>>, constants |-> <<>>]

opcodes_len(c) == Len(c.opcodes)

read_opcode(c, index) == c.opcodes[index + 1]

\* Chunk::read: the constant at an index of the constant vector
read(c, index) == c.constants[index + 1]

\* a write_opcode that stores over the last opcode of a chunk that has one
write_opcode_over_last(c, opcode) ==
    IF c.opcodes = <<>> THEN [c EXCEPT !.opcodes = <<opcode>>]
    ELSE [c EXCEPT !.opcodes[Len(c.opcodes)] = opcode]

\* Chunk::write_opcode, the chunk it leaves
write_opcode(c, opcode) == [c EXCEPT !.opcodes = Append(@, opcode)]

\* Chunk::write_opcode, the OpcodeIndex it returns: `length`
write_opcode_index(c) == opcodes_len(c)

\* a write_constant that reuses the index of an equal constant
write_constant_deduplicating(c, constant) ==
    IF \E i \in 1..Len(c.constants) : c.constants[i] = constant
    THEN write_opcode(c, OpConstant((CHOOSE i \in 1..Len(c.constants) :
                                        c.constants[i] = constant) - 1))
    ELSE write_opcode([c EXCEPT !.constants = Append(@, constant)],
                      OpConstant(Len(c.constants)))

\* Chunk::write_constant, the chunk it leaves
write_constant(c, constant) ==
    write_opcode([c EXCEPT !.constants = Append(@, constant)],
                 OpConstant(Len(c.constants)))

\* Chunk::write_constant, the ConstantIndex it returns: `constant_index`
write_constant_index(c) == Len(c.constants)

\* what `writes` keeps of a call of Chunk::write_opcode on chunk c: the opcode
\* passed, the index returned, the index the opcode went to
OpcodeWrite(c, opcode) ==
    [call |-> "write_opcode", passed |-> opcode, returned |-> write_opcode_index(c),
     index |-> opcodes_len(c)]

\* what `writes` keeps of a call of Chunk::write_constant on chunk c: the
\* constant passed, the constant index returned, the index its opcode went to
ConstantWrite(c, constant) ==
    [call |-> "write_constant", passed |-> constant,
     returned |-> write_constant_index(c), index |-> opcodes_len(c)]

\* an Opcode::patch that turns every patched opcode into an unconditional jump
OpcodePatch_into_jp(opcode, index) == OpJp(index)

\* Opcode::patch: the variant is kept, the payload replaced; any other
\* variant is unreachable
OpcodePatch(opcode, index) ==
    CASE opcode.op \in {"Jif", "Jp", "Block", "Break"} -> [opcode EXCEPT !.arg = index]

----------------------------------------------------------------------------
(* Patching of forward jumps: BytecodeGenerator::{curr_index, emit_patch,   *)
(* patch}, as used by the If and While arms and by it_patches_opcodes       *)

\* the index the next opcode will be written to
curr_index(c) == opcodes_len(c)

\* the handle emit_patch returns: the index of the opcode it wrote
Patch(index) == [index |-> index]

emit_patch(c, opcode) == write_opcode(c, opcode)

\* the payload that patch writes: the number of opcodes after the jump
PatchDistance(c, handle) == curr_index(c) - handle.index - 1

patch(c, handle) ==
    [c EXCEPT !.opcodes[handle.index + 1] = OpcodePatch(@, PatchDistance(c, handle))]

----------------------------------------------------------------------------
(* BytecodeGenerator.state: a stack of scopes, each with the chunk index at  *)
(* its entry and the variables declared in it                               *)

GeneratorScope(scope_type, starting_index) ==
    [scope_type |-> scope_type, starting_index |-> starting_index, variables |-> <<>>,
     upvalues |-> <<>>]

StateNew == <<GeneratorScope("Global", 0)>>

state_current_scope(st) == st[Len(st)]

state_enter_scope(st, scope_type, starting_index) ==
    Append(st, GeneratorScope(scope_type, starting_index))

state_leave_scope(st) == SubSeq(st, 1, Len(st) - 1)

state_declare_var(st, name) ==
    [st EXCEPT ![Len(st)].variables = Append(@, name)]

\* state.declared(): the number of variables declared in the current scope
state_declared(st) == Len(state_current_scope(st).variables)

\* the variables of all scopes in slot order
RECURSIVE state_locals(_)
state_locals(st) ==
    IF st = <<>> THEN <<>>
    ELSE state_locals(SubSeq(st, 1, Len(st) - 1)) \o st[Len(st)].variables

\* the slot of the innermost declaration of name
state_find_local(st, name) ==
    LET locals == state_locals(st)
    IN  CHOOSE i \in 0..(Len(locals) - 1) :
            /\ locals[i + 1] = name
            /\ \A j \in (i + 1)..(Len(locals) - 1) : locals[j + 1] # name

\* the scope that opens the function being compiled; the global scope for
\* the code outside every function
function_base(st) ==
    LET opened == { i \in 1..Len(st) : st[i].scope_type = "Function" }
    IN  IF opened = {} THEN 1 ELSE CHOOSE i \in opened : \A j \in opened : j <= i

\* the scope stack of the function being compiled
function_scopes(st) == SubSeq(st, function_base(st), Len(st))

\* the scope stacks of the functions around it
enclosing_scopes(st) == SubSeq(st, 1, function_base(st) - 1)

state_is_declared(st, name) ==
    \E i \in 1..Len(state_locals(st)) : state_locals(st)[i] = name

\* the descriptor of a captured local of the enclosing function
Upvalue(local_index, upvalue_index, is_ref) ==
    [is_local |-> TRUE, local_index |-> local_index, upvalue_index |-> upvalue_index,
     is_ref |-> is_ref]

\* the descriptors of the function being compiled
function_upvalues(st) == st[function_base(st)].upvalues

\* the position of the descriptor of a captured local, or the position the
\* next descriptor gets
upvalue_index(st, local_index) ==
    LET upvalues == function_upvalues(st)
        known == { i \in 1..Len(upvalues) : upvalues[i].local_index = local_index }
    IN  IF known = {} THEN Len(upvalues) ELSE (CHOOSE i \in known : TRUE) - 1

\* a name that resolves in the enclosing function adds one descriptor to the
\* function being compiled, once
state_add_upvalue(st, local_index, is_ref) ==
    IF upvalue_index(st, local_index) < Len(function_upvalues(st)) THEN st
    ELSE [st EXCEPT ![function_base(st)].upvalues =
              Append(@, Upvalue(local_index, Len(@), is_ref))]

\* state.scope_upvalues() as the FunctionDeclaration arm reads it, after
\* compile_function has left the scope of the function: the descriptors of
\* the scope left last
scope_upvalues(left) == left.upvalues

RECURSIVE state_declare_vars(_, _)
state_declare_vars(st, names) ==
    IF names = <<>> THEN st
    ELSE state_declare_vars(state_declare_var(st, Head(names)), Tail(names))

----------------------------------------------------------------------------
(* The machine's instruction pointer: crates/vm/src/flow_control.rs         *)

Bool(b) == [tag |-> "Bool", value |-> b]

\* RuntimeValue::Number
Number(n) == [tag |-> "Number", value |-> n]

\* RuntimeValue::Null
Null == [tag |-> "Null"]

\* impl Into<bool> for Value: Null and Bool(false) are false, all else true
into_bool(value) ==
    CASE value.tag = "Null" -> FALSE
      [] value.tag = "Bool" -> value.value
      [] OTHER -> TRUE

\* what RuntimeValue::eq can return for two values: their equality when they
\* are of one kind; for values of two kinds it is Ok(false) or an error
runtime_value_eq(a, b) ==
    IF a.tag = b.tag
    THEN {IF a = b THEN "Ok(true)" ELSE "Ok(false)"}
    ELSE {"Ok(false)", "Err"}

\* VM::move_pointer
move_pointer(ip, distance) == ip + distance

\* an op_jif that jumps when the condition is true
op_jif_on_true(ip, jump_value, condition) ==
    IF condition = Bool(TRUE) THEN move_pointer(ip, jump_value) ELSE ip

\* VM::op_jif: the pointer moves when the condition equals Bool(false)
op_jif(ip, jump_value, condition) ==
    IF condition = Bool(FALSE) THEN move_pointer(ip, jump_value) ELSE ip

\* VM::op_jf: the unconditional jump
op_jf(ip, jump_value) == move_pointer(ip, jump_value)

VmOff == [status |-> "off", ip |-> 0, jumped |-> <<>>, popped |-> <<>>, depth |-> 0]

----------------------------------------------------------------------------
(* Control state of the walk *)

Frame(pc, node) == [pc |-> pc, node |-> node]

\* what visit_stmt keeps of a VariableDeclaration while its initializer is
\* visited; `earlier` records what the name resolved to before the declaration
DeclFrame(node, earlier) ==
    [pc |-> "VariableDeclaration.initialized", node |-> node, earlier |-> earlier]

VisitExprs(exprs) == [i \in 1..Len(exprs) |-> Frame("visit_expr", exprs[i])]

VisitStmts(stmts) == [i \in 1..Len(stmts) |-> Frame("visit_stmt", stmts[i])]

Running == returned = "none" /\ stack # <<>>

AtExpr(kind) ==
    /\ Running
    /\ Head(stack).pc = "visit_expr"
    /\ Head(stack).node.kind = kind

AtStmt(kind) ==
    /\ Running
    /\ Head(stack).pc = "visit_stmt"
    /\ Head(stack).node.kind = kind

AtResume(pc) == Running /\ Head(stack).pc = pc

\* the visit at the head of the stack goes on with `frames`, then returns Ok
Continue_(frames) == stack' = frames \o Tail(stack)

\* Err(..) returned through every `?` up to Analyzer::analyze, which pushes it
Fail(cause) ==
    /\ errors' = Append(errors, ParseError(cause, Head(stack).node.span))
    /\ stack' = <<>>

TypeOK ==
    /\ analyzed \in 0..MaxSize
    /\ returned \in {"none", "Ok", "Err"}
    /\ Len(scopes) >= 1
    /\ scopes[1].scope_type = "Global"

Init ==
    /\ scopes = AnalyzerNew
    /\ errors = <<>>
    /\ stack = <<>>
    /\ analyzed = 0
    /\ returned = "none"
    /\ chunk = ChunkDefault
    /\ state = StateNew
    /\ work = <<>>
    /\ generated = 0
    /\ patched = {}
    /\ writes = <<>>
    /\ functions = <<>>
    /\ globals = <<>>
    /\ closed = GeneratorScope("Global", 0)
    /\ evaluated = <<>>
    /\ marks = <<>>
    /\ vm = VmOff

----------------------------------------------------------------------------
(* Analyzer::visit_stmt, one action per arm and per resume point *)

\* VariableDeclaration: declare_var(name, false); visit_expr(expr)?; ...
VisitVariableDeclaration ==
    /\ AtStmt("VariableDeclaration")
    /\ LET node == Head(stack).node
       IN  /\ scopes' = declare_var(scopes, node.name, FALSE)
           /\ Continue_(<<Frame("visit_expr", node.expr),
                          DeclFrame(node, find_var(<<current_scope(scopes)>>, node.name))>>)
    /\ UNCHANGED <<errors, analyzed, returned, gvars>>

\* ...; declare_var(name, true)
DeclareInitialized ==
    /\ AtResume("VariableDeclaration.initialized")
    /\ scopes' = declare_var(scopes, Head(stack).node.name, TRUE)
    /\ Continue_(<<>>)
    /\ UNCHANGED <<errors, analyzed, returned, gvars>>

\* FunctionDeclaration: declare_var(name, true); enter_scope(Function);
\* visit_expr(body)?; ...
VisitFunctionDeclaration ==
    /\ AtStmt("FunctionDeclaration")
    /\ LET node == Head(stack).node
       IN  /\ scopes' = enter_scope(declare_var(scopes, node.name, TRUE), "Function")
           /\ Continue_(<<Frame("visit_expr", node.body),
                          Frame("FunctionDeclaration.leave_scope", node)>>)
    /\ UNCHANGED <<errors, analyzed, returned, gvars>>

\* ...; leave_scope()
FunctionDeclarationLeave ==
    /\ AtResume("FunctionDeclaration.leave_scope")
    /\ scopes' = leave_scope(scopes)
    /\ Continue_(<<>>)
    /\ UNCHANGED <<errors, analyzed, returned, gvars>>

\* Expression: visit_expr(expr)?
VisitExpression ==
    /\ AtStmt("Expression")
    /\ Continue_(<<Frame("visit_expr", Head(stack).node.expr)>>)
    /\ UNCHANGED <<scopes, errors, analyzed, returned, gvars>>

----------------------------------------------------------------------------
(* Analyzer::visit_expr, one action per arm and per resume point *)

\* an Identifier arm that lets an unknown name pass
IdentifierCause_accepts_unknown(found) ==
    CASE found = "Some(false)" -> "UsedBeforeInitialization"
      [] found = "Some(true)" -> "Ok"
      [] found = "None" -> "Ok"

\* what the Identifier arm does with the result of find_var
IdentifierCause(found) ==
    CASE found = "Some(false)" -> "UsedBeforeInitialization"
      [] found = "Some(true)" -> "Ok"
      [] found = "None" -> "NotDefined"

VisitIdentifier ==
    /\ AtExpr("Atom")
    /\ Head(stack).node.val.tag = "Identifier"
    /\ LET cause == IdentifierCause(find_var(scopes, Head(stack).node.val.name))
       IN  IF cause = "Ok"
           THEN Continue_(<<>>) /\ UNCHANGED errors
           ELSE Fail(cause)
    /\ UNCHANGED <<scopes, analyzed, returned, gvars>>

\* `_ => {}`: every atom that is not an identifier
VisitOther ==
    /\ AtExpr("Atom")
    /\ Head(stack).node.val.tag # "Identifier"
    /\ Continue_(<<>>)
    /\ UNCHANGED <<scopes, errors, analyzed, returned, gvars>>

\* the sub-expressions an arm visits, in the order of its visit_expr calls
Children(node) ==
    CASE node.kind = "Binary" -> <<node.lhs, node.rhs>>
      [] node.kind = "Call" -> <<node.callee>> \o node.args
      [] node.kind = "Unary" -> <<node.rhs>>
      [] node.kind = "If" -> <<node.condition, node.body>> \o node.else_expr
      [] node.kind = "Array" -> node.values
      [] node.kind = "Index" -> <<node.target, node.position>>
      [] node.kind = "GetProperty" -> <<node.target>>
      [] node.kind = "SetProperty" -> <<node.target, node.value>>
      [] node.kind = "ObjectLiteral" ->
            [i \in 1..Len(node.properties) |-> node.properties[i][2]]
      [] node.kind = "Assignment" -> <<node.target, node.value>>

VisitChildren(kind) ==
    /\ AtExpr(kind)
    /\ Continue_(VisitExprs(Children(Head(stack).node)))
    /\ UNCHANGED <<scopes, errors, analyzed, returned, gvars>>

VisitBinary == VisitChildren("Binary")

VisitCall == VisitChildren("Call")

VisitUnary == VisitChildren("Unary")

VisitIf == VisitChildren("If")

VisitArray == VisitChildren("Array")

VisitIndex == VisitChildren("Index")

VisitGetProperty == VisitChildren("GetProperty")

VisitSetProperty == VisitChildren("SetProperty")

VisitObjectLiteral == VisitChildren("ObjectLiteral")

VisitAssignment == VisitChildren("Assignment")

\* Block: the statements, then the return expression; no scope is entered
VisitBlock ==
    /\ AtExpr("Block")
    /\ LET node == Head(stack).node
       IN  Continue_(VisitStmts(node.stmts) \o VisitExprs(node.return_expr))
    /\ UNCHANGED <<scopes, errors, analyzed, returned, gvars>>

\* While: visit_expr(condition)?; ...
VisitWhile ==
    /\ AtExpr("While")
    /\ LET node == Head(stack).node
       IN  Continue_(<<Frame("visit_expr", node.condition),
                       Frame("While.enter_scope", node)>>)
    /\ UNCHANGED <<scopes, errors, analyzed, returned, gvars>>

\* ...; enter_scope(Loop); visit_expr(body)?; ...
WhileEnter ==
    /\ AtResume("While.enter_scope")
    /\ scopes' = enter_scope(scopes, "Loop")
    /\ LET node == Head(stack).node
       IN  Continue_(<<Frame("visit_expr", node.body),
                       Frame("While.leave_scope", node)>>)
    /\ UNCHANGED <<errors, analyzed, returned, gvars>>

\* ...; leave_scope()
WhileLeave ==
    /\ AtResume("While.leave_scope")
    /\ scopes' = leave_scope(scopes)
    /\ Continue_(<<>>)
    /\ UNCHANGED <<errors, analyzed, returned, gvars>>

\* whether the Continue and Break arms accept
LoopAccepts(scs) == is_loop(current_scope(scs))

VisitContinue ==
    /\ AtExpr("Continue")
    /\ IF ~LoopAccepts(scopes)
       THEN Fail("UsedOutsideLoop")
       ELSE Continue_(<<>>) /\ UNCHANGED errors
    /\ UNCHANGED <<scopes, analyzed, returned, gvars>>

VisitBreak ==
    /\ AtExpr("Break")
    /\ IF ~LoopAccepts(scopes)
       THEN Fail("UsedOutsideLoop")
       ELSE Continue_(VisitExprs(Head(stack).node.return_expr)) /\ UNCHANGED errors
    /\ UNCHANGED <<scopes, analyzed, returned, gvars>>

\* whether the Return arm accepts
ReturnAccepts(scs) == is_function(current_scope(scs))

VisitReturn ==
    /\ AtExpr("Return")
    /\ IF ~ReturnAccepts(scopes)
       THEN Fail("ReturnUsedOutsideFunction")
       ELSE Continue_(VisitExprs(Head(stack).node.value)) /\ UNCHANGED errors
    /\ UNCHANGED <<scopes, analyzed, returned, gvars>>

\* Closure: enter_scope(Function); visit_expr(body)?; ...
VisitClosure ==
    /\ AtExpr("Closure")
    /\ scopes' = enter_scope(scopes, "Function")
    /\ LET node == Head(stack).node
       IN  Continue_(<<Frame("visit_expr", node.body),
                       Frame("Closure.leave_scope", node)>>)
    /\ UNCHANGED <<errors, analyzed, returned, gvars>>

\* ...; leave_scope()
ClosureLeave ==
    /\ AtResume("Closure.leave_scope")
    /\ scopes' = leave_scope(scopes)
    /\ Continue_(<<>>)
    /\ UNCHANGED <<errors, analyzed, returned, gvars>>

----------------------------------------------------------------------------
(* Analyzer::analyze *)

\* `for stmt in ast`: the next top-level statement is handed to visit_stmt
AnalyzeNext ==
    /\ returned = "none"
    /\ stack = <<>>
    /\ \E stmt \in StmtsAfter(analyzed) :
           /\ stack' = <<Frame("visit_stmt", stmt)>>
           /\ analyzed' = analyzed + Size(stmt)
    /\ UNCHANGED <<scopes, errors, returned, gvars>>

\* after the loop: Err(errors) if any error was pushed, else Ok(())
AnalyzeReturn ==
    /\ returned = "none"
    /\ stack = <<>>
    /\ returned' = IF errors # <<>> THEN "Err" ELSE "Ok"
    /\ UNCHANGED <<scopes, errors, stack, analyzed, gvars>>

Next ==
    \/ AnalyzeNext
    \/ AnalyzeReturn
    \/ VisitVariableDeclaration
    \/ DeclareInitialized
    \/ VisitFunctionDeclaration
    \/ FunctionDeclarationLeave
    \/ VisitExpression
    \/ VisitIdentifier
    \/ VisitOther
    \/ VisitBinary
    \/ VisitCall
    \/ VisitUnary
    \/ VisitIf
    \/ VisitArray
    \/ VisitIndex
    \/ VisitGetProperty
    \/ VisitSetProperty
    \/ VisitObjectLiteral
    \/ VisitAssignment
    \/ VisitBlock
    \/ VisitWhile
    \/ WhileEnter
    \/ WhileLeave
    \/ VisitContinue
    \/ VisitBreak
    \/ VisitReturn
    \/ VisitClosure
    \/ ClosureLeave

Spec == Init /\ [][Next]_vars

----------------------------------------------------------------------------
(* Vocabulary of the analyzer properties *)

\* the walk is about to read identifier `name`
AtRead(name) ==
    /\ AtExpr("Atom")
    /\ Head(stack).node.val.tag = "Identifier"
    /\ Head(stack).node.val.name = name

Names == {"x", "u", "print", "f", "a"}

\* the node or one of its descendants declares `name`
RECURSIVE Declares(_, _), AnyDeclares(_, _)
Declares(node, name) ==
    \/ /\ node.kind \in {"VariableDeclaration", "FunctionDeclaration"}
       /\ node.name = name
    \/ AnyDeclares(SubNodes(node), name)

AnyDeclares(nodes, name) ==
    /\ nodes # <<>>
    /\ (Declares(Head(nodes), name) \/ AnyDeclares(Tail(nodes), name))

\* frame i is a variable declaration of `name` whose initializer is being
\* visited and does not declare `name` again
InInitializer(i, name) ==
    /\ stack[i].pc = "VariableDeclaration.initialized"
    /\ stack[i].node.name = name
    /\ ~Declares(stack[i].node.expr, name)

LeavePcs ==
    {"While.leave_scope", "Closure.leave_scope", "FunctionDeclaration.leave_scope"}

\* the scopes entered by the constructs that enclose frame i
EntriesAbove(i) == Cardinality({j \in 1..(i - 1) : stack[j].pc \in LeavePcs})

\* the scope that was current when the declaration of frame i was visited
DeclaringScope(i) == scopes[Len(scopes) - EntriesAbove(i)]

\* the innermost loop or function body that lexically encloses the visit at
\* the head of the stack is a loop body
InLoopBody ==
    \E i \in 1..Len(stack) :
        /\ stack[i].pc = "While.leave_scope"
        /\ EntriesAbove(i) = 0

Rejected(cause) ==
    errors' = Append(errors, ParseError(cause, Head(stack).node.span))

Accepted == errors' = errors

LastCause == IF errors = <<>> THEN "Ok" ELSE errors[Len(errors)].cause

----------------------------------------------------------------------------
(* Analyzer properties *)

\* C1, first part: while the initializer e of `let x = e` is visited (e not
\* declaring x again), x is recorded as uninitialized in the scope of the
\* declaration.
C1_UninitializedWhileVisited ==
    \A i \in 1..Len(stack) : \A name \in Names :
        InInitializer(i, name) =>
            /\ name \in DOMAIN DeclaringScope(i).variables
            /\ DeclaringScope(i).variables[name] = FALSE

\* C1, second part: a read of x inside that initializer is reported as
\* UsedBeforeInitialization with the span of the read; x becomes initialized
\* by the step that follows the visit of e, and a visit that ends in an error
\* leaves the scopes as they are.
C1_ReadStep ==
    /\ \A i \in 1..Len(stack) : \A name \in Names :
            (AtRead(name) /\ InInitializer(i, name)) =>
                Rejected("UsedBeforeInitialization")
    /\ \A name \in Names :
            (Running /\ InInitializer(1, name)) =>
                /\ errors' = errors
                /\ find_var(<<current_scope(scopes')>>, name) = "Some(true)"
    /\ (errors' # errors) => (scopes' = scopes)

C2_ShadowingAccepted ==
    [][\A i \in 1..Len(stack) : \A name \in Names :
          (/\ AtRead(name)
           /\ InInitializer(i, name)
           /\ stack[i].earlier = "Some(true)"
           /\ EntriesAbove(i) = 0) => Accepted]_vars

\* C3 (as claimed): an error does not end the visit of its top-level
\* statement; what is still to be visited of the statement is visited.
C3_NoShortCircuit == [][(errors' # errors) => (stack' = Tail(stack))]_vars

\* C4 (as claimed): a return is accepted exactly when some scope on the
\* scope stack is a Function scope, and is reported as
\* ReturnUsedOutsideFunction otherwise.
C4_ReturnInFunction ==
    [][AtExpr("Return") =>
          IF \E i \in 1..Len(scopes) : is_function(scopes[i])
          THEN Accepted
          ELSE Rejected("ReturnUsedOutsideFunction")]_vars

\* C5 (as claimed): a break or continue is accepted when the innermost loop
\* or function body around it is a loop body, and is reported as
\* UsedOutsideLoop in every other place.
C5_BreakContinueInLoop ==
    [][(AtExpr("Break") \/ AtExpr("Continue")) =>
          IF InLoopBody THEN Accepted ELSE Rejected("UsedOutsideLoop")]_vars

\* C6: reading an identifier that no scope of the scope stack declares adds
\* exactly one error, NotDefined, whose span_start and span_end are the span
\* of the identifier expression, and ends the visit of the statement.
C6_UndeclaredReadReported ==
    [][\A name \in Names :
          (/\ AtRead(name)
           /\ \A i \in 1..Len(scopes) : name \notin DOMAIN scopes[i].variables)
          => /\ errors' = Append(errors,
                    [span_start |-> Head(stack).node.span,
                     span_end |-> Head(stack).node.span,
                     cause |-> "NotDefined"])
             /\ stack' = <<>>]_vars

\* C6 witness: the statement `u;` alone has been analyzed and analyze has
\* returned its one error, NotDefined at the span of u.
C6_Witness ==
    /\ returned = "Err"
    /\ errors = <<[span_start |-> CoreSpan, span_end |-> CoreSpan,
                   cause |-> "NotDefined"]>>

\* C7 (as claimed): `this` and `super` outside a class body are reported as
\* UsedOutsideClass.
C7_ThisSuperOutsideClass ==
    [][(AtExpr("Atom") /\ Head(stack).node.val.tag \in {"This", "Super"}) =>
          Rejected("UsedOutsideClass")]_vars

----------------------------------------------------------------------------
(* The generated programs: sequences of top-level statements of at most    *)
(* MaxCode AST nodes in total, all accepted by the analyzer: control flow  *)
(* nested in control flow over number literals, and one expression of each *)
(* remaining kind.  break and continue occur in loop bodies only, a read   *)
(* of x only once x is declared.                                            *)

\* number of AST nodes of a generated program
MaxCode == 8

Num == NumberAtom(CoreSpan)

X == Identifier("x", CoreSpan)

\* the control-flow expressions of at most n nodes
RECURSIVE Generable(_, _)
Generable(n, in_loop) ==
    IF n < 1 THEN {}
    ELSE {Num}
         \cup (IF in_loop THEN {Break(None, CoreSpan), Continue(CoreSpan)} ELSE {})
         \cup { If(Num, a, None, CoreSpan) : a \in Generable(n - 2, in_loop) }
         \cup UNION { { If(Num, a, Some(b), CoreSpan) :
                            b \in Generable(n - 2 - Size(a), in_loop) } :
                      a \in Generable(n - 3, in_loop) }
         \cup { While(Num, b, CoreSpan) : b \in Generable(n - 2, TRUE) }
         \cup { Block(<<>>, Some(e), CoreSpan) : e \in Generable(n - 1, in_loop) }
         \cup { Block(<<Expression(e, CoreSpan)>>, None, CoreSpan) :
                    e \in Generable(n - 2, in_loop) }

\* one expression of each remaining kind that does not read x
Closed ==
    { Binary(Num, Num, CoreSpan), Unary(Num, CoreSpan),
      Array(<<Num, Num>>, CoreSpan), Closure(<<>>, Num, CoreSpan),
      ObjectLiteral(<<<<"k", Num>>, <<"m", Num>>>>, CoreSpan),
      GetProperty(ObjectLiteral(<<<<"k", Num>>>>, CoreSpan), CoreSpan),
      While(Num, Break(Some(Num), CoreSpan), CoreSpan),
      Block(<<VariableDeclaration("x", Num, CoreSpan)>>, Some(X), CoreSpan) }

\* one expression of each kind that reads x
ReadingX ==
    { X, Binary(X, Num, CoreSpan), Assignment(X, Num, CoreSpan),
      Call(X, <<Num, Num>>, CoreSpan), Call(X, <<Unary(X, CoreSpan), Num>>, CoreSpan),
      Index(X, Num, CoreSpan),
      GetProperty(X, CoreSpan), SetProperty(X, Num, CoreSpan),
      If(X, Assignment(X, Num, CoreSpan), Some(X), CoreSpan) }

\* common::CONSTRUCTOR_NAME
CONSTRUCTOR_NAME == "constructor"

\* function declarations: arrow and block bodies, with and without a tail,
\* named as a constructor or not, with a parameter, with a free variable, and
\* one inside another
GenFunctions ==
    { FunctionDeclaration(name, <<>>, body, CoreSpan) :
          name \in {"f", CONSTRUCTOR_NAME},
          body \in { Num, Block(<<>>, Some(Num), CoreSpan),
                     Block(<<Expression(Num, CoreSpan)>>, None, CoreSpan) } }
        \cup { FunctionDeclaration("f", <<"a">>, Identifier("a", CoreSpan), CoreSpan),
               FunctionDeclaration("f", <<>>, X, CoreSpan),
               FunctionDeclaration("f", <<>>,
                   Block(<<FunctionDeclaration("g", <<>>, Num, CoreSpan)>>, None, CoreSpan),
                   CoreSpan) }

GenStmts ==
    { Expression(e, CoreSpan) :
          e \in Generable(MaxCode - 1, FALSE) \cup Closed \cup ReadingX }
        \cup { VariableDeclaration("x", e, CoreSpan) : e \in Generable(MaxCode - 4, FALSE) }
        \cup GenFunctions

\* the statements that fit into what is left of MaxCode after n nodes
GenStmtsFitting == [n \in 0..MaxCode |-> { s \in GenStmts : n + Size(s) <= MaxCode }]

\* the statement reads x without declaring it
ReadsX(stmt) ==
    \/ stmt.kind = "Expression" /\ stmt.expr \in ReadingX
    \/ stmt.kind = "FunctionDeclaration" /\ stmt.body = X

----------------------------------------------------------------------------
(* Control state of the generator: BytecodeFrom::generate is recursive;    *)
(* a frame is a resume point of an arm with the locals the arm still needs *)

Generate(node) == [pc |-> "generate", node |-> node]

GenerateStmt(node) == [pc |-> "generate_stmt", node |-> node]

GenerateAll(exprs) == [i \in 1..Len(exprs) |-> Generate(exprs[i])]

GenerateStmts(stmts) == [i \in 1..Len(stmts) |-> GenerateStmt(stmts[i])]

\* a pending self.write_opcode(opcode)
WriteOpcodeFrame(opcode) == [pc |-> "write_opcode", opcode |-> opcode]

\* a pending self.write_constant(constant)
WriteConstantFrame(constant) == [pc |-> "write_constant", constant |-> constant]

\* a pending self.patch(&handle) of the arm of `node`; jif_patch is the arm's
\* other handle, patched before
PatchFrame(node, handle, jif_patch) ==
    [pc |-> "patch", node |-> node, patch |-> handle, jif_patch |-> jif_patch]

Generating == vm.status = "off" /\ work # <<>>

AtGenerate(kind) ==
    /\ Generating
    /\ Head(work).pc = "generate"
    /\ Head(work).node.kind = kind

AtGenerateStmt(kind) ==
    /\ Generating
    /\ Head(work).pc = "generate_stmt"
    /\ Head(work).node.kind = kind

AtWork(pc) == Generating /\ Head(work).pc = pc

\* the arm at the head of `work` goes on with `frames`, then returns Ok
Then(frames) == work' = frames \o Tail(work)

----------------------------------------------------------------------------
(* The generator's loop over the top-level statements *)

\* where the code of a top-level statement starts
StatementMark(index, stmt) == [kind |-> "statement", index |-> index, stmt |-> stmt.kind]

\* where the code of an initializer ends, in the chunk of the function at
\* nesting `level`, and the slot its variable was given
DeclaredMark(index, level, slot) ==
    [kind |-> "declared", index |-> index, level |-> level, slot |-> slot]

GenerateNext ==
    /\ vm.status = "off"
    /\ work = <<>>
    /\ \E stmt \in GenStmtsFitting[generated] :
           /\ ReadsX(stmt) => (\E i \in 1..Len(state_locals(state)) :
                                   state_locals(state)[i] = "x")
           /\ work' = <<GenerateStmt(stmt)>>
           /\ generated' = generated + Size(stmt)
           /\ marks' = Append(marks, StatementMark(opcodes_len(chunk), stmt))
    /\ UNCHANGED <<avars, evaluated, functions, globals, closed, chunk, writes, state, patched, vm>>

----------------------------------------------------------------------------
(* BytecodeFrom<Stmt>::generate: crates/bytecode/src/stmt/mod.rs *)

\* Expression: self.generate(expr)?
GenerateExpression ==
    /\ AtGenerateStmt("Expression")
    /\ Then(<<Generate(Head(work).node.expr)>>)
    /\ UNCHANGED <<avars, marks, evaluated, functions, globals, closed, chunk, writes, state, generated, patched, vm>>

\* VariableDeclaration: self.generate(expr)?; ...
GenerateVariableDeclaration ==
    /\ AtGenerateStmt("VariableDeclaration")
    /\ LET node == Head(work).node
       IN  Then(<<Generate(node.expr), [pc |-> "declare_var", name |-> node.name]>>)
    /\ UNCHANGED <<avars, marks, evaluated, functions, globals, closed, chunk, writes, state, generated, patched, vm>>

\* ...; self.state.declare_var(name)
StateDeclareVar ==
    /\ AtWork("declare_var")
    /\ state' = state_declare_var(state, Head(work).name)
    /\ marks' = Append(marks, DeclaredMark(opcodes_len(chunk), Len(functions),
                                           state_find_local(function_scopes(state'),
                                                            Head(work).name)))
    /\ Then(<<>>)
    /\ UNCHANGED <<avars, evaluated, functions, globals, closed, chunk, writes, generated, patched, vm>>

\* compile_function: let is_constructor = ...
is_constructor(name, predefined_variables) ==
    predefined_variables # <<>> /\ name = CONSTRUCTOR_NAME

\* compile_function: match *body.kind { ... }, what is generated and written
\* for the body
CompileFunctionBody(body, constructor) ==
    IF body.kind = "Block"
    THEN GenerateStmts(body.stmts)
             \o (IF constructor
                 THEN <<WriteConstantFrame(ConstantLocal(0)), WriteOpcodeFrame(Op("Get")),
                        WriteOpcodeFrame(Op("Return"))>>
                 ELSE (IF body.return_expr # None
                       THEN GenerateAll(body.return_expr)
                       ELSE <<WriteOpcodeFrame(Op("Null"))>>)
                          \o <<WriteOpcodeFrame(Op("Return"))>>)
    ELSE <<Generate(body)>>
             \o (IF ~constructor THEN <<WriteOpcodeFrame(Op("Return"))>> ELSE <<>>)

\* FunctionDeclaration: compile_function(name, params, body, &[name]): a new
\* function with an empty chunk and a Function scope, the parameters and the
\* predefined variables declared, then the body
GenerateFunctionDeclaration ==
    /\ AtGenerateStmt("FunctionDeclaration")
    /\ LET node == Head(work).node
           predefined_variables == <<node.name>>
       IN  /\ functions' = Append(functions, [chunk |-> chunk, patched |-> patched,
                                              writes |-> writes])
           /\ chunk' = ChunkDefault
           /\ patched' = {}
           /\ writes' = <<>>
           /\ state' = state_declare_vars(state_enter_scope(state, "Function", 0),
                                          node.params \o predefined_variables)
           /\ Then(CompileFunctionBody(node.body,
                                       is_constructor(node.name, predefined_variables))
                       \o <<[pc |-> "compile_function.pop", node |-> node]>>)
    /\ UNCHANGED <<avars, marks, evaluated, globals, closed, generated, vm>>

\* callables::Function, with the descriptors of its scope
Function(name, arity, c, upvalues) ==
    [name |-> name, arity |-> arity, chunk |-> c, upvalues |-> upvalues]

\* compile_function: self.functions.pop(); self.leave_scope(); Ok(new_fn)
CompileFunctionPop ==
    /\ AtWork("compile_function.pop")
    /\ LET node == Head(work).node
           enclosing == functions[Len(functions)]
           new_fn == Function(node.name, Len(node.params), chunk, function_upvalues(state))
       IN  /\ functions' = SubSeq(functions, 1, Len(functions) - 1)
           /\ chunk' = enclosing.chunk
           /\ patched' = enclosing.patched
           /\ writes' = enclosing.writes
           /\ closed' = state_current_scope(state)
           /\ state' = state_leave_scope(state)
           /\ Then(<<[pc |-> "declare_global", new_fn |-> new_fn]>>)
    /\ UNCHANGED <<avars, marks, evaluated, globals, generated, vm>>

\* FunctionDeclaration: the address of one descriptor
UpvalueAddress(upvalue) ==
    IF upvalue.is_local
    THEN ConstantLocal(upvalue.local_index)
    ELSE ConstantUpvalue(upvalue.upvalue_index, upvalue.is_ref)

\* a closure created without the addresses of its upvalues
ClosureFrames_without_addresses(fn_ptr, upvalues) ==
    <<WriteConstantFrame(ConstantGlobalPointer(fn_ptr)),
      WriteOpcodeFrame(OpCreateClosure(Len(upvalues)))>>

\* FunctionDeclaration: write_constant(GlobalPointer(fn_ptr)); one
\* write_constant per address; write_opcode(CreateClosure(upvalues_count))
ClosureFrames(fn_ptr, upvalues) ==
    <<WriteConstantFrame(ConstantGlobalPointer(fn_ptr))>>
        \o [i \in 1..Len(upvalues) |-> WriteConstantFrame(UpvalueAddress(upvalues[i]))]
        \o <<WriteOpcodeFrame(OpCreateClosure(Len(upvalues)))>>

\* a declare_global that keeps one item per name: an item of the same name is
\* replaced, and its pointer returned again
declare_global_by_name(gs, item) ==
    LET same == { i \in 1..Len(gs) : gs[i].name = item.name }
    IN  IF same = {}
        THEN [globals |-> Append(gs, item), returned |-> Len(gs)]
        ELSE LET i == CHOOSE i \in same : TRUE
             IN  [globals |-> [gs EXCEPT ![i] = item], returned |-> i - 1]

\* declare_global, without its declare_var: self.globals.push(item);
\* self.globals.len() - 1
declare_global(gs, item) ==
    LET pushed == Append(gs, item)
    IN  [globals |-> pushed, returned |-> Len(pushed) - 1]

\* FunctionDeclaration: declare_global(new_fn.into()), the upvalues read from
\* the state, and what is written for the closure
DeclareGlobal ==
    /\ AtWork("declare_global")
    /\ LET new_fn == Head(work).new_fn
           declared == declare_global(globals, new_fn)
           fn_ptr == declared.returned
       IN  /\ state' = state_declare_var(state, new_fn.name)
           /\ globals' = declared.globals
           /\ Then(ClosureFrames(fn_ptr, scope_upvalues(closed)))
    /\ UNCHANGED <<avars, marks, evaluated, functions, closed, chunk, writes, generated, patched, vm>>

----------------------------------------------------------------------------
(* BytecodeFrom<Expr>::generate: crates/bytecode/src/expr/mod.rs *)

\* a number literal: its constant
GenerateNumber ==
    /\ AtGenerate("Atom")
    /\ Head(work).node.val.tag = "Number"
    /\ chunk' = write_constant(chunk, ConstantNumber)
    /\ writes' = Append(writes, ConstantWrite(chunk, ConstantNumber))
    /\ Then(<<>>)
    /\ UNCHANGED <<avars, marks, evaluated, functions, globals, closed, state, generated, patched, vm>>

\* an identifier that resolves to a local of the function being compiled:
\* the address of its slot; one that resolves in the enclosing function: a
\* descriptor for the function, and the address of the upvalue
GenerateIdentifier ==
    /\ AtGenerate("Atom")
    /\ Head(work).node.val.tag = "Identifier"
    /\ LET name == Head(work).node.val.name
       IN  IF state_is_declared(function_scopes(state), name)
           THEN LET constant == ConstantLocal(state_find_local(function_scopes(state), name))
                IN  /\ chunk' = write_constant(chunk, constant)
                    /\ writes' = Append(writes, ConstantWrite(chunk, constant))
                    /\ state' = state
           ELSE \E is_ref \in BOOLEAN :
                    LET local_index ==
                            state_find_local(function_scopes(enclosing_scopes(state)), name)
                        constant == ConstantUpvalue(upvalue_index(state, local_index), is_ref)
                    IN  /\ chunk' = write_constant(chunk, constant)
                        /\ writes' = Append(writes, ConstantWrite(chunk, constant))
                        /\ state' = state_add_upvalue(state, local_index, is_ref)
    /\ Then(<<>>)
    /\ UNCHANGED <<avars, marks, evaluated, functions, globals, closed, generated, patched, vm>>

\* a pending write_opcode of an arm
WriteOpcode ==
    /\ AtWork("write_opcode")
    /\ chunk' = write_opcode(chunk, Head(work).opcode)
    /\ writes' = Append(writes, OpcodeWrite(chunk, Head(work).opcode))
    /\ Then(<<>>)
    /\ UNCHANGED <<avars, marks, evaluated, functions, globals, closed, state, generated, patched, vm>>

\* a pending write_constant of an arm
WriteConstant ==
    /\ AtWork("write_constant")
    /\ chunk' = write_constant(chunk, Head(work).constant)
    /\ writes' = Append(writes, ConstantWrite(chunk, Head(work).constant))
    /\ Then(<<>>)
    /\ UNCHANGED <<avars, marks, evaluated, functions, globals, closed, state, generated, patched, vm>>

\* Binary: lhs, rhs, then the operator's opcode
GenerateBinary ==
    /\ AtGenerate("Binary")
    /\ LET node == Head(work).node
       IN  Then(<<Generate(node.lhs), Generate(node.rhs), WriteOpcodeFrame(Op("Add"))>>)
    /\ UNCHANGED <<avars, marks, evaluated, functions, globals, closed, chunk, writes, state, generated, patched, vm>>

\* Unary: rhs, then the operator's opcode
GenerateUnary ==
    /\ AtGenerate("Unary")
    /\ Then(<<Generate(Head(work).node.rhs), WriteOpcodeFrame(Op("Neg"))>>)
    /\ UNCHANGED <<avars, marks, evaluated, functions, globals, closed, chunk, writes, state, generated, patched, vm>>

\* If: self.generate(condition)?; ...
GenerateIf ==
    /\ AtGenerate("If")
    /\ LET node == Head(work).node
       IN  Then(<<Generate(node.condition), [pc |-> "If.jif", node |-> node]>>)
    /\ UNCHANGED <<avars, marks, evaluated, functions, globals, closed, chunk, writes, state, generated, patched, vm>>

\* ...; jif_patch = emit_patch(Jif(0)); self.generate(body)?; ...
IfEmitJif ==
    /\ AtWork("If.jif")
    /\ chunk' = emit_patch(chunk, OpJif(0))
    /\ writes' = Append(writes, OpcodeWrite(chunk, OpJif(0)))
    /\ LET node == Head(work).node
       IN  Then(<<Generate(node.body),
                  [pc |-> "If.jp", node |-> node, jif_patch |-> Patch(curr_index(chunk))]>>)
    /\ UNCHANGED <<avars, marks, evaluated, functions, globals, closed, state, generated, patched, vm>>

\* an If arm that patches the Jif only after the else branch
IfEmitJp_patches_after_else ==
    /\ AtWork("If.jp")
    /\ chunk' = emit_patch(chunk, OpJp(0))
    /\ writes' = Append(writes, OpcodeWrite(chunk, OpJp(0)))
    /\ LET node == Head(work).node
           jif_patch == Head(work).jif_patch
           jp_patch == Patch(curr_index(chunk))
       IN  Then(GenerateAll(node.else_expr)
                    \o <<PatchFrame(node, jif_patch, jif_patch),
                         PatchFrame(node, jp_patch, jif_patch)>>)
    /\ UNCHANGED <<avars, marks, evaluated, functions, globals, closed, state, generated, patched, vm>>

\* ...; jp_patch = emit_patch(Jp(0)); self.patch(&jif_patch);
\* the else branch if there is one; self.patch(&jp_patch)
IfEmitJp ==
    /\ AtWork("If.jp")
    /\ chunk' = emit_patch(chunk, OpJp(0))
    /\ writes' = Append(writes, OpcodeWrite(chunk, OpJp(0)))
    /\ LET node == Head(work).node
           jif_patch == Head(work).jif_patch
           jp_patch == Patch(curr_index(chunk))
       IN  Then(<<PatchFrame(node, jif_patch, jif_patch)>>
                    \o GenerateAll(node.else_expr)
                    \o <<PatchFrame(node, jp_patch, jif_patch)>>)
    /\ UNCHANGED <<avars, marks, evaluated, functions, globals, closed, state, generated, patched, vm>>

\* self.patch(&handle)
PatchJump ==
    /\ AtWork("patch")
    /\ chunk' = patch(chunk, Head(work).patch)
    /\ patched' = patched \cup
            {[index |-> Head(work).patch.index, target |-> curr_index(chunk)]}
    /\ Then(<<>>)
    /\ UNCHANGED <<avars, marks, evaluated, functions, globals, closed, state, generated, writes, vm>>

\* While: enter_scope(Block); start = curr_index(); self.generate(condition)?; ...
GenerateWhile ==
    /\ AtGenerate("While")
    /\ state' = state_enter_scope(state, "Block", curr_index(chunk))
    /\ LET node == Head(work).node
       IN  Then(<<Generate(node.condition),
                  [pc |-> "While.jif", node |-> node, start |-> curr_index(chunk)]>>)
    /\ UNCHANGED <<avars, marks, evaluated, functions, globals, closed, chunk, writes, generated, patched, vm>>

\* ...; jif = emit_patch(Jif(0)); self.generate(body)?; ...
WhileEmitJif ==
    /\ AtWork("While.jif")
    /\ chunk' = emit_patch(chunk, OpJif(0))
    /\ writes' = Append(writes, OpcodeWrite(chunk, OpJif(0)))
    /\ LET node == Head(work).node
       IN  Then(<<Generate(node.body),
                  [pc |-> "While.jp", node |-> node, start |-> Head(work).start,
                   jif |-> Patch(curr_index(chunk))]>>)
    /\ UNCHANGED <<avars, marks, evaluated, functions, globals, closed, state, generated, patched, vm>>

\* ...; end = curr_index(); write_opcode(Jp(-(end - start))); self.patch(&jif);
\* write_opcode(Null); leave_scope()
WhileEmitJp ==
    /\ AtWork("While.jp")
    /\ LET node == Head(work).node
           start == Head(work).start
           jif == Head(work).jif
           end == curr_index(chunk)
       IN  /\ chunk' = write_opcode(chunk, OpJp(-(end - start)))
           /\ writes' = Append(writes, OpcodeWrite(chunk, OpJp(-(end - start))))
           /\ Then(<<PatchFrame(node, jif, jif), WriteOpcodeFrame(Op("Null")),
                     [pc |-> "leave_scope"]>>)
    /\ UNCHANGED <<avars, marks, evaluated, functions, globals, closed, state, generated, patched, vm>>

\* self.leave_scope()
LeaveScope ==
    /\ AtWork("leave_scope")
    /\ closed' = state_current_scope(state)
    /\ state' = state_leave_scope(state)
    /\ Then(<<>>)
    /\ UNCHANGED <<avars, marks, evaluated, functions, globals, chunk, writes, generated, patched, vm>>

\* Block: the statements, the return expression or Null, ...
GenerateBlock ==
    /\ AtGenerate("Block")
    /\ LET node == Head(work).node
       IN  Then(GenerateStmts(node.stmts)
                    \o (IF node.return_expr # None
                        THEN GenerateAll(node.return_expr)
                        ELSE <<WriteOpcodeFrame(Op("Null"))>>)
                    \o <<[pc |-> "Block.end", node |-> node]>>)
    /\ UNCHANGED <<avars, marks, evaluated, functions, globals, closed, chunk, writes, state, generated, patched, vm>>

\* ...; write_opcode(Block(self.state.declared()))
BlockEnd ==
    /\ AtWork("Block.end")
    /\ chunk' = write_opcode(chunk, OpBlock(state_declared(state)))
    /\ writes' = Append(writes, OpcodeWrite(chunk, OpBlock(state_declared(state))))
    /\ Then(<<>>)
    /\ UNCHANGED <<avars, marks, evaluated, functions, globals, closed, state, generated, patched, vm>>

\* Break: the return expression or Null, ...
GenerateBreak ==
    /\ AtGenerate("Break")
    /\ LET node == Head(work).node
       IN  Then((IF node.return_expr # None
                 THEN GenerateAll(node.return_expr)
                 ELSE <<WriteOpcodeFrame(Op("Null"))>>)
                    \o <<[pc |-> "Break.emit_patch"]>>)
    /\ UNCHANGED <<avars, marks, evaluated, functions, globals, closed, chunk, writes, state, generated, patched, vm>>

\* ...; self.emit_patch(Break(0)); the handle is dropped
BreakEmitPatch ==
    /\ AtWork("Break.emit_patch")
    /\ chunk' = emit_patch(chunk, OpBreak(0))
    /\ writes' = Append(writes, OpcodeWrite(chunk, OpBreak(0)))
    /\ Then(<<>>)
    /\ UNCHANGED <<avars, marks, evaluated, functions, globals, closed, state, generated, patched, vm>>

\* Continue: Jp(starting_index - ending_index) from the current scope's start
GenerateContinue ==
    /\ AtGenerate("Continue")
    /\ LET ending_index == curr_index(chunk)
           starting_index == state_current_scope(state).starting_index
       IN  /\ chunk' = write_opcode(chunk, OpJp(starting_index - ending_index))
           /\ writes' = Append(writes, OpcodeWrite(chunk, OpJp(starting_index - ending_index)))
    /\ Then(<<>>)
    /\ UNCHANGED <<avars, marks, evaluated, functions, globals, closed, state, generated, patched, vm>>

\* a Call arm that generates the callee before the arguments
GenerateCall_callee_first ==
    /\ AtGenerate("Call")
    /\ LET node == Head(work).node
       IN  Then(<<Generate(node.callee)>> \o GenerateAll(node.args)
                    \o <<[pc |-> "write_opcode", opcode |-> Op("Call"), node |-> node]>>)
    /\ UNCHANGED <<avars, marks, evaluated, functions, globals, closed, chunk, writes, state, generated, patched, vm>>

\* Call: the arguments, the callee, Call
GenerateCall ==
    /\ AtGenerate("Call")
    /\ LET node == Head(work).node
       IN  Then(GenerateAll(node.args)
                    \o <<Generate(node.callee),
                         [pc |-> "write_opcode", opcode |-> Op("Call"), node |-> node]>>)
    /\ UNCHANGED <<avars, marks, evaluated, functions, globals, closed, chunk, writes, state, generated, patched, vm>>

\* Array, Index, Closure: `=> {}`
GenerateNothing ==
    /\ Generating
    /\ Head(work).pc = "generate"
    /\ Head(work).node.kind \in {"Array", "Index", "Closure"}
    /\ Then(<<>>)
    /\ UNCHANGED <<avars, marks, evaluated, functions, globals, closed, chunk, writes, state, generated, patched, vm>>

\* GetProperty: target, the identifier's constant, GetProperty
GenerateGetProperty ==
    /\ AtGenerate("GetProperty")
    /\ Then(<<Generate(Head(work).node.target),
              WriteConstantFrame(ConstantString("identifier")),
              WriteOpcodeFrame(OpGetProperty(FALSE))>>)
    /\ UNCHANGED <<avars, marks, evaluated, functions, globals, closed, chunk, writes, state, generated, patched, vm>>

\* SetProperty: target, the identifier's constant, value, SetProperty(1)
GenerateSetProperty ==
    /\ AtGenerate("SetProperty")
    /\ LET node == Head(work).node
       IN  Then(<<Generate(node.target),
                  WriteConstantFrame(ConstantString("identifier")),
                  Generate(node.value),
                  WriteOpcodeFrame(OpSetProperty(1))>>)
    /\ UNCHANGED <<avars, marks, evaluated, functions, globals, closed, chunk, writes, state, generated, patched, vm>>

\* Assignment: target, value, Asg
GenerateAssignment ==
    /\ AtGenerate("Assignment")
    /\ LET node == Head(work).node
       IN  Then(<<Generate(node.target), Generate(node.value),
                  WriteOpcodeFrame(Op("Asg"))>>)
    /\ UNCHANGED <<avars, marks, evaluated, functions, globals, closed, chunk, writes, state, generated, patched, vm>>

\* the frames of the properties of an object literal: value, then key
RECURSIVE PropertyFrames(_)
PropertyFrames(properties) ==
    IF properties = <<>> THEN <<>>
    ELSE <<Generate(Head(properties)[2]),
           WriteConstantFrame(ConstantString(Head(properties)[1]))>>
             \o PropertyFrames(Tail(properties))

\* ObjectLiteral: each value and key, CreateObject(amount)
GenerateObjectLiteral ==
    /\ AtGenerate("ObjectLiteral")
    /\ LET properties == Head(work).node.properties
       IN  Then(PropertyFrames(properties)
                    \o <<WriteOpcodeFrame(OpCreateObject(Len(properties)))>>)
    /\ UNCHANGED <<avars, marks, evaluated, functions, globals, closed, chunk, writes, state, generated, patched, vm>>

----------------------------------------------------------------------------
(* The machine's dispatch over the generated chunk.  Only the instruction  *)
(* pointer is kept; the condition a Jif pops is any boolean.  The loop     *)
(* fetches opcodes[ip], advances ip, and executes.                         *)

VmRunning == vm.status = "running" /\ vm.ip \in 0..(opcodes_len(chunk) - 1)

Fetched == read_opcode(chunk, vm.ip)

\* the pointer after the fetch
Advanced == vm.ip + 1

\* the longest operand stack followed
MaxDepth == 6

\* the opcode table: how many values an opcode takes from the operand stack
Pops(opcode) ==
    CASE opcode.op \in {"Add", "Asg", "GetProperty"} -> 2
      [] opcode.op \in {"Neg", "Jif", "Get"} -> 1
      [] opcode.op \in {"Block", "CreateClosure"} -> opcode.arg + 1
      [] opcode.op = "CreateObject" -> 2 * opcode.arg
      [] opcode.op = "SetProperty" -> 3
      [] OTHER -> 0

\* the opcode table: how many values an opcode leaves on the operand stack
Pushes(opcode) ==
    CASE opcode.op \in {"Jif", "Jp", "Break", "Asg"} -> 0
      [] OTHER -> 1

\* the length of the operand stack after the fetched opcode
Executed == vm.depth - Pops(Fetched) + Pushes(Fetched)

VmRun ==
    /\ vm.status = "off"
    /\ work = <<>>
    /\ generated > 0
    /\ vm' = [status |-> "running", ip |-> 0, jumped |-> <<>>, popped |-> <<>>, depth |-> 0]
    /\ UNCHANGED <<avars, marks, evaluated, functions, globals, closed, chunk, writes, state, work, generated, patched>>

\* the values a condition can leave on the operand stack
Conditions == {Bool(TRUE), Bool(FALSE), Null, Number(0), Number(-1)}

\* Jif pops the condition; vm.popped keeps it
VmJif ==
    /\ VmRunning
    /\ Fetched.op = "Jif"
    /\ vm.depth >= Pops(Fetched)
    /\ \E condition \in Conditions :
           \E equal \in runtime_value_eq(condition, Bool(FALSE)) :
               IF equal = "Err"
               THEN vm' = [vm EXCEPT !.status = "error", !.ip = Advanced,
                                     !.jumped = <<>>, !.popped = <<condition>>,
                                     !.depth = Executed]
               ELSE vm' = [vm EXCEPT !.ip = op_jif(Advanced, Fetched.arg, condition),
                                     !.jumped = IF condition = Bool(FALSE)
                                                THEN <<vm.ip>> ELSE <<>>,
                                     !.popped = <<condition>>,
                                     !.depth = Executed]
    /\ UNCHANGED <<avars, marks, evaluated, functions, globals, closed, chunk, writes, state, work, generated, patched>>

\* a forward Jp
VmJp ==
    /\ VmRunning
    /\ Fetched.op = "Jp"
    /\ Fetched.arg >= 0
    /\ vm' = [vm EXCEPT !.ip = op_jf(Advanced, Fetched.arg), !.jumped = <<vm.ip>>,
                        !.popped = <<>>]
    /\ UNCHANGED <<avars, marks, evaluated, functions, globals, closed, chunk, writes, state, work, generated, patched>>

\* a backward Jp
VmJpBack ==
    /\ VmRunning
    /\ Fetched.op = "Jp"
    /\ Fetched.arg < 0
    /\ vm' = [vm EXCEPT !.ip = move_pointer(Advanced, Fetched.arg),
                        !.jumped = <<vm.ip>>, !.popped = <<>>]
    /\ UNCHANGED <<avars, marks, evaluated, functions, globals, closed, chunk, writes, state, work, generated, patched>>

\* Break jumps by its payload
VmBreak ==
    /\ VmRunning
    /\ Fetched.op = "Break"
    /\ vm' = [vm EXCEPT !.ip = move_pointer(Advanced, Fetched.arg),
                        !.jumped = <<vm.ip>>, !.popped = <<>>]
    /\ UNCHANGED <<avars, marks, evaluated, functions, globals, closed, chunk, writes, state, work, generated, patched>>

\* every other opcode leaves the advanced pointer alone; Call and Return
\* leave the chunk, and an opcode that finds too few values fails
VmStep ==
    /\ VmRunning
    /\ Fetched.op \notin {"Jif", "Jp", "Break"}
    /\ Executed <= MaxDepth
    /\ vm' = [vm EXCEPT !.status = IF Fetched.op \in {"Call", "Return"} THEN "left"
                                   ELSE IF vm.depth < Pops(Fetched) THEN "error"
                                   ELSE "running",
                        !.ip = Advanced, !.jumped = <<>>, !.popped = <<>>,
                        !.depth = IF Fetched.op \in {"Call", "Return"}
                                     \/ vm.depth < Pops(Fetched)
                                  THEN vm.depth ELSE Executed]
    /\ UNCHANGED <<avars, marks, evaluated, functions, globals, closed, chunk, writes, state, work, generated, patched>>

\* the pointer has left the chunk
VmHalt ==
    /\ vm.status = "running"
    /\ vm.ip \notin 0..(opcodes_len(chunk) - 1)
    /\ vm' = [vm EXCEPT !.status = "halted", !.popped = <<>>]
    /\ UNCHANGED <<avars, marks, evaluated, functions, globals, closed, chunk, writes, state, work, generated, patched>>

GenNext ==
    \/ GenerateNext
    \/ GenerateExpression
    \/ GenerateVariableDeclaration
    \/ StateDeclareVar
    \/ GenerateFunctionDeclaration
    \/ CompileFunctionPop
    \/ DeclareGlobal
    \/ GenerateNumber
    \/ GenerateIdentifier
    \/ WriteOpcode
    \/ WriteConstant
    \/ GenerateBinary
    \/ GenerateUnary
    \/ GenerateIf
    \/ IfEmitJif
    \/ IfEmitJp
    \/ PatchJump
    \/ GenerateWhile
    \/ WhileEmitJif
    \/ WhileEmitJp
    \/ LeaveScope
    \/ GenerateBlock
    \/ BlockEnd
    \/ GenerateBreak
    \/ BreakEmitPatch
    \/ GenerateContinue
    \/ GenerateCall
    \/ GenerateNothing
    \/ GenerateGetProperty
    \/ GenerateSetProperty
    \/ GenerateAssignment
    \/ GenerateObjectLiteral
    \/ VmRun
    \/ VmJif
    \/ VmJp
    \/ VmJpBack
    \/ VmBreak
    \/ VmStep
    \/ VmHalt

GenSpec == Init /\ [][GenNext]_vars

GenTypeOK ==
    /\ generated \in 0..MaxCode
    /\ vm.status \in {"off", "running", "halted", "error"}
    /\ Len(state) >= 1
    /\ \A i \in 1..Len(chunk.opcodes) :
           chunk.opcodes[i].op = "Constant" =>
               chunk.opcodes[i].arg < Len(chunk.constants)

----------------------------------------------------------------------------
(* Generator and machine properties *)

\* the handles emit_patch has returned and patch has not yet been given
PendingPatches ==
    { work[i].patch : i \in { j \in 1..Len(work) : work[j].pc = "patch" } }
        \cup { work[i].jif_patch : i \in { j \in 1..Len(work) : work[j].pc = "If.jp" } }
        \cup { work[i].jif : i \in { j \in 1..Len(work) : work[j].pc = "While.jp" } }

C9_PlaceholderUntilPatched ==
    \A h \in PendingPatches : read_opcode(chunk, h.index).arg = 0

\* C9, second part: patch keeps the variant of the opcode at handle.index,
\* sets its payload to current_index - handle.index - 1, and changes no other
\* opcode and no constant.
C9_PatchStep ==
    AtWork("patch") =>
        LET index == Head(work).patch.index
        IN  /\ read_opcode(chunk', index).op = read_opcode(chunk, index).op
            /\ read_opcode(chunk', index).arg = curr_index(chunk) - index - 1
            /\ opcodes_len(chunk') = opcodes_len(chunk)
            /\ \A i \in 0..(opcodes_len(chunk) - 1) :
                   i # index => read_opcode(chunk', i) = read_opcode(chunk, i)
            /\ chunk'.constants = chunk.constants

\* C9: patch(handle) overwrites only the opcode at handle.index, keeps its
\* variant and sets its payload to current_index - handle.index - 1, the
\* number of opcodes emitted after the jump; before the patch the placeholder
\* is 0, and patch changes no other opcode and no constant of the chunk.
C9_PatchOverwritesPayloadOnly ==
    [](C9_PlaceholderUntilPatched) /\ [][C9_PatchStep]_vars

\* C9 witness: a Jif followed by two opcodes has been patched to Jif(2).
C9_Witness ==
    \E p \in patched :
        /\ p.target = p.index + 3
        /\ read_opcode(chunk, p.index) = OpJif(2)

C11_BackwardJumpsReachStart ==
    [][/\ AtWork("While.jp") =>
             LET start == Head(work).start
                 end == curr_index(chunk)
             IN  /\ read_opcode(chunk', end) = OpJp(start - end - 1)
                 /\ move_pointer(end + 1, read_opcode(chunk', end).arg) = start
       /\ AtGenerate("Continue") =>
             LET start == state_current_scope(state).starting_index
                 index == curr_index(chunk)
             IN  move_pointer(index + 1, read_opcode(chunk', index).arg) = start]_vars

\* the opcode at `index` has been patched and carries the distance to the
\* index it was patched to
PatchedTo(index) ==
    \E p \in patched :
        /\ p.index = index
        /\ read_opcode(chunk, index).arg = p.target - index - 1

\* C12 (as claimed): when the While arm finishes, every Break emitted since
\* the loop's start has been patched; and when the generation of a statement
\* has finished, every Jif, forward Jp and Break of the chunk has been patched
\* to its distance.
C12_NoUnpatchedJump ==
    /\ AtWork("leave_scope") =>
          \A i \in state_current_scope(state).starting_index..(opcodes_len(chunk) - 1) :
              read_opcode(chunk, i).op = "Break" => PatchedTo(i)
    /\ (vm.status = "off" /\ work = <<>>) =>
          \A i \in 0..(opcodes_len(chunk) - 1) :
              LET opcode == read_opcode(chunk, i)
              IN  (opcode.op \in {"Jif", "Break"} \/ (opcode.op = "Jp" /\ opcode.arg >= 0))
                      => PatchedTo(i)


----------------------------------------------------------------------------
(* A chunk under arbitrary calls of its interface: write_constant with any *)
(* constant, write_opcode with any opcode but Constant, and patch of a      *)
(* jump written earlier, in any order                                       *)

\* the number of writes to one chunk
MaxWrites == 4

ConstantBool(b) == [tag |-> "Bool", value |-> b]

ChunkConstants == {ConstantNumber, ConstantBool(TRUE), ConstantString("foo")}

ChunkOpcodes == {Op("Add"), OpJif(0), OpJp(0)}

ChunkCalling ==
    /\ vm.status = "off"
    /\ work = <<>>
    /\ generated = 0

\* chunk.write_constant(constant)
ChunkWriteConstant ==
    /\ ChunkCalling
    /\ Len(writes) < MaxWrites
    /\ \E constant \in ChunkConstants :
           /\ chunk' = write_constant(chunk, constant)
           /\ writes' = Append(writes, ConstantWrite(chunk, constant))
    /\ UNCHANGED <<avars, marks, evaluated, functions, globals, closed, state, work, generated, patched, vm>>

\* chunk.write_opcode(opcode)
ChunkWriteOpcode ==
    /\ ChunkCalling
    /\ Len(writes) < MaxWrites
    /\ \E opcode \in ChunkOpcodes :
           /\ chunk' = write_opcode(chunk, opcode)
           /\ writes' = Append(writes, OpcodeWrite(chunk, opcode))
    /\ UNCHANGED <<avars, marks, evaluated, functions, globals, closed, state, work, generated, patched, vm>>

\* patch(&handle) for the handle of a jump written earlier
ChunkPatch ==
    /\ ChunkCalling
    /\ \E index \in 0..(opcodes_len(chunk) - 1) :
           /\ read_opcode(chunk, index).op \in {"Jif", "Jp"}
           /\ chunk' = patch(chunk, Patch(index))
    /\ UNCHANGED <<avars, marks, evaluated, functions, globals, closed, state, work, generated, patched, writes, vm>>

ChunkNext ==
    \/ ChunkWriteConstant
    \/ ChunkWriteOpcode
    \/ ChunkPatch

ChunkSpec == Init /\ [][ChunkNext]_vars

\* the calls of write_constant among the first k calls
ConstantWritesBefore(k) ==
    { j \in 1..(k - 1) : writes[j].call = "write_constant" }

\* C13: every Constant(i) of a chunk has i < len(constants) and was emitted
\* by a write_constant whose constant is constants[i]; write_constant returns
\* 0, 1, 2, ... in call order, equal constants included, and read(i) is the
\* constant of the call that returned i
C13_ConstantsAddressable ==
    /\ \A i \in 0..(opcodes_len(chunk) - 1) :
           read_opcode(chunk, i).op = "Constant" =>
               /\ read_opcode(chunk, i).arg < Len(chunk.constants)
               /\ \E k \in 1..Len(writes) :
                      /\ writes[k].call = "write_constant"
                      /\ writes[k].index = i
    /\ \A k \in 1..Len(writes) :
           writes[k].call = "write_constant" =>
               /\ writes[k].returned = Cardinality(ConstantWritesBefore(k))
               /\ read_opcode(chunk, writes[k].index) = OpConstant(writes[k].returned)
               /\ read(chunk, writes[k].returned) = writes[k].passed

\* an equal constant written twice around a jump that has been patched
C13_Witness ==
    /\ ChunkCalling
    /\ Len(chunk.constants) = 2
    /\ read(chunk, 0) = read(chunk, 1)
    /\ \E i \in 0..(opcodes_len(chunk) - 1) :
           read_opcode(chunk, i).op = "Jif" /\ read_opcode(chunk, i).arg > 0


\* C14: the opcodes of a chunk are only appended to: a call of write_opcode or
\* write_constant makes the chunk one opcode longer, write_opcode returns the
\* index at which read_opcode finds the opcode passed, the opcodes written
\* before stay at their index (a patch changes a payload only), and the
\* chunk is as long as the number of writes to it
C14_OpcodesAppendOnly ==
    [][functions' = functions =>
          /\ \A i \in 0..(opcodes_len(chunk) - 1) :
                 /\ i < opcodes_len(chunk')
                 /\ read_opcode(chunk', i).op = read_opcode(chunk, i).op
                 /\ writes' # writes => read_opcode(chunk', i) = read_opcode(chunk, i)
          /\ IF writes' # writes
             THEN LET call == writes'[Len(writes')]
                  IN  /\ Len(writes') = Len(writes) + 1
                      /\ opcodes_len(chunk') = opcodes_len(chunk) + 1
                      /\ call.call = "write_opcode" =>
                             /\ call.returned = opcodes_len(chunk)
                             /\ read_opcode(chunk', call.returned) = call.passed
                      /\ call.call = "write_constant" =>
                             read_opcode(chunk', opcodes_len(chunk)) = OpConstant(call.returned)
             ELSE opcodes_len(chunk') = opcodes_len(chunk)
          /\ opcodes_len(chunk') = Len(writes')]_vars

\* generation has ended for a chunk written by both calls and patched
C14_Witness ==
    /\ vm.status = "off"
    /\ work = <<>>
    /\ patched # {}
    /\ opcodes_len(chunk) = Len(writes)
    /\ \E i, j \in 1..Len(writes) :
           writes[i].call = "write_constant" /\ writes[j].call = "write_opcode"


\* the variables a block declares directly: one for each declaration among
\* its statements
DeclaredDirectly(node) ==
    Cardinality({ i \in 1..Len(node.stmts) :
                      node.stmts[i].kind \in {"VariableDeclaration", "FunctionDeclaration"} })

\* C15 (as claimed): a block ends with its tail expression, or Null when it
\* has none, and then Block(n), n being the number of variables declared
\* directly inside the block, whatever was declared before the block
C15_BlockCountsItsOwnVariables ==
    [][AtWork("Block.end") =>
          LET node == Head(work).node
              index == curr_index(chunk)
          IN  /\ read_opcode(chunk', index) = OpBlock(DeclaredDirectly(node))
              /\ node.return_expr = None => read_opcode(chunk, index - 1) = Op("Null")]_vars


\* compile_function has written the whole body of a function and is about to
\* pop it
FunctionCompiled == AtWork("compile_function.pop")

\* the opcode `back` places before the end of the chunk being written
OpcodeFromEnd(back) == read_opcode(chunk, opcodes_len(chunk) - 1 - back)

\* C16 (as claimed): the chunk of every function compiled ends with Return,
\* and with Null, Return when its body is a block without a tail expression
C16_FunctionEndsWithReturn ==
    FunctionCompiled =>
        LET body == Head(work).node.body
        IN  /\ opcodes_len(chunk) >= 1
            /\ OpcodeFromEnd(0) = Op("Return")
            /\ (body.kind = "Block" /\ body.return_expr = None) =>
                   /\ opcodes_len(chunk) >= 2
                   /\ OpcodeFromEnd(1) = Op("Null")

\* C17 (as claimed): the chunk of every function compiled as a constructor
\* ends with Constant(MemoryAddress::Local(0)), Get, Return, whatever the
\* form of its body
C17_ConstructorReturnsInstance ==
    (FunctionCompiled /\ is_constructor(Head(work).node.name, <<Head(work).node.name>>)) =>
        /\ opcodes_len(chunk) >= 3
        /\ OpcodeFromEnd(0) = Op("Return")
        /\ OpcodeFromEnd(1) = Op("Get")
        /\ OpcodeFromEnd(2).op = "Constant"
        /\ read(chunk, OpcodeFromEnd(2).arg) = ConstantLocal(0)


\* the constant a Constant opcode of the chunk being written refers to
ConstantAt(index) == read(chunk, read_opcode(chunk, index).arg)

\* the names a node reads
RECURSIVE NamesRead(_)
NamesRead(node) ==
    IF node.kind = "Atom"
    THEN (IF node.val.tag = "Identifier" THEN {node.val.name} ELSE {})
    ELSE UNION { NamesRead(SubNodes(node)[i]) : i \in 1..Len(SubNodes(node)) }

\* the names a function declaration reads and does not bind itself
FreeVariables(node) ==
    NamesRead(node.body) \ ({ node.params[i] : i \in 1..Len(node.params) } \cup {node.name})

Shown(index) ==
    IF read_opcode(chunk, index).op = "Constant" THEN ConstantAt(index).tag
    ELSE read_opcode(chunk, index).op

\* what the code of an expression made of atoms and operators shows
RECURSIVE CodeShown(_)
CodeShown(node) ==
    CASE node.kind = "Atom" ->
             (IF node.val.tag = "Identifier" THEN <<"MemoryAddress">> ELSE <<"Number">>)
      [] node.kind = "Unary" -> CodeShown(node.rhs) \o <<"Neg">>
      [] node.kind = "Binary" -> CodeShown(node.lhs) \o CodeShown(node.rhs) \o <<"Add">>

RECURSIVE CodeShownAll(_)
CodeShownAll(nodes) ==
    IF nodes = <<>> THEN <<>> ELSE CodeShown(Head(nodes)) \o CodeShownAll(Tail(nodes))

\* the arm of a call is about to write its Call opcode
CallWritten == AtWork("write_opcode") /\ Head(work).opcode = Op("Call")

\* C19: when the Call opcode of a call is written, the chunk ends with the
\* code of the arguments from left to right and then the code of the callee;
\* Call follows the callee's code directly
C19_ArgumentsThenCallee ==
    [][CallWritten =>
          LET node == Head(work).node
              expected == CodeShownAll(node.args) \o CodeShown(node.callee)
              end == curr_index(chunk)
          IN  /\ end >= Len(expected)
              /\ \A k \in 1..Len(expected) :
                     Shown(end - Len(expected) + k - 1) = expected[k]
              /\ read_opcode(chunk', end) = Op("Call")]_vars

\* the call x(-x, 1) has been generated
C19_Witness ==
    /\ opcodes_len(chunk) >= 5
    /\ OpcodeFromEnd(0) = Op("Call")
    /\ <<Shown(opcodes_len(chunk) - 5), Shown(opcodes_len(chunk) - 4),
         Shown(opcodes_len(chunk) - 3), Shown(opcodes_len(chunk) - 2)>>
           = <<"MemoryAddress", "Neg", "Number", "MemoryAddress">>


\* the machine is about to execute a Jif whose offset is not 0
AtJif == VmRunning /\ Fetched.op = "Jif" /\ Fetched.arg # 0

\* C20 (as claimed): Jif moves the pointer by its offset exactly when the
\* condition it pops is Null or Bool(false); for every other value, Number 0
\* and the negative numbers included, the pointer is left after the Jif
C20_JifJumpsOnFalsy ==
    [][AtJif =>
          LET condition == vm'.popped[1]
          IN  IF into_bool(condition)
              THEN vm'.ip = Advanced
              ELSE vm'.ip = move_pointer(Advanced, Fetched.arg)]_vars


----------------------------------------------------------------------------
(* Arithmetic on values: src/bytecode/value.rs.  A Number holds an f64; the *)
(* finite ones are integers or ratios of integers here, the others are the  *)
(* infinities and NaN that f64 division produces.                           *)

\* Value::String
String(text) == [tag |-> "String", text |-> text]

\* Value::Address(Address::Local(slot))
AddressLocal(slot) == [tag |-> "Address", local |-> slot]

\* Value::Address(Address::Global(name))
AddressGlobal(name) == [tag |-> "Address", global |-> name]

\* Value::Callable
Callable == [tag |-> "Callable"]

\* a Number that is not finite: "inf", "-inf" or "NaN"
NotFinite(which) == [tag |-> "Number", not_finite |-> which]

\* a finite Number that is not an integer
Ratio(num, den) == [tag |-> "Number", num |-> num, den |-> den]

Abs(n) == IF n < 0 THEN -n ELSE n

\* a / b on f64 for integers a and b
f64_div(a, b) ==
    IF b = 0
    THEN (IF a = 0 THEN NotFinite("NaN")
          ELSE IF a > 0 THEN NotFinite("inf") ELSE NotFinite("-inf"))
    ELSE IF Abs(a) % Abs(b) = 0
         THEN Number((IF (a < 0) = (b < 0) THEN 1 ELSE -1) * (Abs(a) \div Abs(b)))
         ELSE Ratio(a, b)

\* Result<Value>
Ok(value) == [ok |-> TRUE, value |-> value]

Err(message) == [ok |-> FALSE, message |-> message]

\* impl Neg for Value
neg(value) ==
    IF value.tag = "Number" THEN Ok(Number(-value.value))
    ELSE Err("Tried to negate value that can't be negated")

\* an addition that takes Null for 0
add_null_as_zero(a, b) ==
    CASE a.tag = "Number" /\ b.tag = "Number" -> Ok(Number(a.value + b.value))
      [] a.tag = "Number" /\ b.tag = "Null" -> Ok(a)
      [] a.tag = "String" /\ b.tag = "String" -> Ok(String(a.text \o b.text))
      [] OTHER -> Err("Tried to add values that doesn't implement addition.")

\* impl Add for Value
add(a, b) ==
    CASE a.tag = "Number" /\ b.tag = "Number" -> Ok(Number(a.value + b.value))
      [] a.tag = "String" /\ b.tag = "String" -> Ok(String(a.text \o b.text))
      [] OTHER -> Err("Tried to add values that doesn't implement addition.")

\* implement_operations_for_value!(Sub sub, ...)
sub(a, b) ==
    IF a.tag = "Number" /\ b.tag = "Number" THEN Ok(Number(a.value - b.value))
    ELSE Err("Math operation on unsupported type!")

\* implement_operations_for_value!(..., Mul mul, ...)
mul(a, b) ==
    IF a.tag = "Number" /\ b.tag = "Number" THEN Ok(Number(a.value * b.value))
    ELSE Err("Math operation on unsupported type!")

\* implement_operations_for_value!(..., Div div)
div(a, b) ==
    IF a.tag = "Number" /\ b.tag = "Number" THEN Ok(f64_div(a.value, b.value))
    ELSE Err("Math operation on unsupported type!")

\* the operands the operations are applied to
Values ==
    { Number(-2), Number(0), Number(1), Number(2), Bool(TRUE), Bool(FALSE),
      String(<<>>), String(<<"a">>), AddressLocal(0), AddressGlobal("var"),
      Callable, Null }

Evaluated(op, operands, result) == [op |-> op, operands |-> operands, result |-> result]

ValueNeg ==
    /\ \E value \in Values : evaluated' = <<Evaluated("neg", <<value>>, neg(value))>>
    /\ UNCHANGED <<avars, marks, chunk, state, work, generated, patched, writes, functions,
                   globals, closed, vm>>

ValueAdd ==
    /\ \E a, b \in Values : evaluated' = <<Evaluated("add", <<a, b>>, add(a, b))>>
    /\ UNCHANGED <<avars, marks, chunk, state, work, generated, patched, writes, functions,
                   globals, closed, vm>>

ValueSub ==
    /\ \E a, b \in Values : evaluated' = <<Evaluated("sub", <<a, b>>, sub(a, b))>>
    /\ UNCHANGED <<avars, marks, chunk, state, work, generated, patched, writes, functions,
                   globals, closed, vm>>

ValueMul ==
    /\ \E a, b \in Values : evaluated' = <<Evaluated("mul", <<a, b>>, mul(a, b))>>
    /\ UNCHANGED <<avars, marks, chunk, state, work, generated, patched, writes, functions,
                   globals, closed, vm>>

ValueDiv ==
    /\ \E a, b \in Values : evaluated' = <<Evaluated("div", <<a, b>>, div(a, b))>>
    /\ UNCHANGED <<avars, marks, chunk, state, work, generated, patched, writes, functions,
                   globals, closed, vm>>

ValueNext ==
    \/ ValueNeg
    \/ ValueAdd
    \/ ValueSub
    \/ ValueMul
    \/ ValueDiv

ValueSpec == Init /\ [][ValueNext]_vars

\* the operand combinations an operation is defined for
Supported(op, operands) ==
    CASE op = "neg" -> operands[1].tag = "Number"
      [] op = "add" -> \/ operands[1].tag = "Number" /\ operands[2].tag = "Number"
                       \/ operands[1].tag = "String" /\ operands[2].tag = "String"
      [] OTHER -> operands[1].tag = "Number" /\ operands[2].tag = "Number"

\* C21: an operation on values returns a value for the supported operands
\* only: Number with Number for every operation, String with String for Add
\* (the concatenation), Number for the negation; with a Bool, a Null, an
\* Address or a Callable among the operands it returns an error
C21_UnsupportedOperandsFail ==
    evaluated # <<>> =>
        LET e == evaluated[1]
        IN  /\ e.result.ok <=> Supported(e.op, e.operands)
            /\ (\E i \in 1..Len(e.operands) :
                    e.operands[i].tag \in {"Bool", "Null", "Address", "Callable"})
                   => ~e.result.ok
            /\ (e.result.ok /\ e.operands[1].tag = "String") =>
                   e.result.value = String(e.operands[1].text \o e.operands[2].text)
            /\ (e.result.ok /\ e.operands[1].tag = "Number") =>
                   e.result.value.tag = "Number"

\* a Number added to Null has failed
C21_Witness ==
    /\ evaluated # <<>>
    /\ evaluated[1].op = "add"
    /\ evaluated[1].operands = <<Number(1), Null>>
    /\ ~evaluated[1].result.ok

\* C22 (as claimed): the division of a Number by the Number zero returns an
\* error, not a value
C22_DivisionByZeroFails ==
    (/\ evaluated # <<>>
     /\ evaluated[1].op = "div"
     /\ evaluated[1].operands[1].tag = "Number"
     /\ evaluated[1].operands[2] = Number(0))
        => ~evaluated[1].result.ok


\* C23 (as claimed): when the arm of an `if` without an else branch patches
\* its Jp, the code after the Jp is the single opcode Null, the value of the
\* path that does not take the body
C23_MissingElseIsNull ==
    (/\ AtWork("patch")
     /\ Head(work).node.kind = "If"
     /\ Head(work).node.else_expr = None
     /\ Head(work).patch # Head(work).jif_patch) =>
        LET jp == Head(work).patch.index
        IN  /\ curr_index(chunk) = jp + 2
            /\ read_opcode(chunk, jp + 1) = Op("Null")


\* C24 (as claimed): when a block ends, the variables it declared stop being
\* counted by the scope and stop being found by name: the end of the block
\* takes as many variables from the generator state as the block declared
C24_BlockEndReleasesVariables ==
    [][AtWork("Block.end") =>
          LET node == Head(work).node
          IN  /\ state_declared(state') = state_declared(state) - DeclaredDirectly(node)
              /\ Len(state_locals(state')) =
                     Len(state_locals(state)) - DeclaredDirectly(node)
              /\ \A i \in 1..Len(node.stmts) :
                     (/\ node.stmts[i].kind = "VariableDeclaration"
                      /\ Len(state_locals(state)) = DeclaredDirectly(node))
                         => ~state_is_declared(state', node.stmts[i].name)]_vars

----------------------------------------------------------------------------
(* Slots and operand-stack positions *)

\* the initializers of the variables declared outside every function whose
\* code ends where the machine's pointer is
InitializerEvaluated ==
    { k \in 1..Len(marks) :
          /\ marks[k].kind = "declared"
          /\ marks[k].level = 0
          /\ marks[k].index = vm.ip }

\* C25 (as claimed): when the machine has run the initializer of a variable,
\* the value sits at the frame-relative position that is the slot the
\* generator gave to the variable, whatever statements precede the declaration
C25_SlotIsWhereTheValueSits ==
    vm.status = "running" =>
        \A k \in InitializerEvaluated : marks[k].slot = vm.depth - 1

\* the top-level statements generated so far, as positions in `marks`
Statements == { k \in 1..Len(marks) : marks[k].kind = "statement" }

\* the statements whose code the machine has run when its pointer is at
\* `index`: those before the statement that starts there, all at the end
RunBefore(index) ==
    { Cardinality({ i \in Statements : i < k }) :
          k \in { j \in Statements : marks[j].index = index } }
        \cup (IF index = opcodes_len(chunk) THEN {Cardinality(Statements)} ELSE {})

\* C26 (as claimed): the code of every expression leaves exactly one value
\* more on the operand stack, on every path and after any number of loop
\* iterations; so in a program of expression statements and variable
\* declarations, the stack is as long as the number of statements run
C26_ExpressionLeavesOneValue ==
    (/\ vm.status = "running"
     /\ \A k \in Statements : marks[k].stmt # "FunctionDeclaration")
        => \A run \in RunBefore(vm.ip) : vm.depth = run

----------------------------------------------------------------------------
(* Scopes of the analyzer *)

\* C27 (as claimed): when the visit of a top-level statement is over, with
\* or without an error, every scope entered for a loop, function or closure
\* body has been left, and the scope stack holds the global scope only
C27_ScopesBalanced ==
    stack = <<>> => (Len(scopes) = 1 /\ scopes[1].scope_type = "Global")

\* `name` is a parameter of a function or closure whose body is being
\* visited, or the name of such a function
OfEnclosingFunction(name) ==
    \E i \in 1..Len(stack) :
        /\ stack[i].pc \in {"FunctionDeclaration.leave_scope", "Closure.leave_scope"}
        /\ \/ \E p \in 1..Len(stack[i].node.params) : stack[i].node.params[p] = name
           \/ /\ stack[i].node.kind = "FunctionDeclaration"
              /\ stack[i].node.name = name

\* C28 (as claimed): reading a parameter of a function or closure inside its
\* body, or the function's own name inside its body, produces no error
C28_ParametersAreDeclared ==
    [][\A name \in Names : (AtRead(name) /\ OfEnclosingFunction(name)) => Accepted]_vars

\* the statement about to be visited is a statement of a block: analyze hands
\* over a top-level statement on an empty stack, and only the Block arm
\* visits statements
AtBlockStmt(kind) == AtStmt(kind) /\ Len(stack) > 1

\* C29 (as claimed), for a declaration in a block expression: the variable
\* belongs to the block, so declaring it changes what no scope outside the
\* block records for a variable of the same name
C29_InnerDeclarationIsLocal ==
    [][AtBlockStmt("VariableDeclaration") =>
          \A i \in 1..Len(scopes) :
              LET name == Head(stack).node.name
              IN  name \in DOMAIN scopes[i].variables =>
                      scopes'[i].variables[name] = scopes[i].variables[name]]_vars

----------------------------------------------------------------------------
(* The globals table *)

\* the pointer written for the closure of the function declared by this step
PointerReturned == Head(work').constant.pointer

\* C30, the declaration: the pointer returned is the index at which the item
\* is stored, and no earlier declaration received it
C30_DeclareStep ==
    AtWork("declare_global") =>
        /\ Len(globals') = Len(globals) + 1
        /\ PointerReturned \in 0..(Len(globals') - 1)
        /\ globals'[PointerReturned + 1] = Head(work).new_fn
        /\ PointerReturned \notin 0..(Len(globals) - 1)

\* C30, every step: the table only grows at its end, so what a pointer
\* returned before denotes stays the same item
C30_AppendOnly ==
    /\ Len(globals') >= Len(globals)
    /\ SubSeq(globals', 1, Len(globals)) = globals

\* C30: declare_global returns the index at which the item was stored; the
\* globals table is append-only, so every pointer returned before still
\* denotes the same item, and two declarations never receive the same
\* pointer, even when they have the same name.
C30_GlobalPointersStable == [][C30_DeclareStep /\ C30_AppendOnly]_vars

\* C30 witness: two functions of one name have been declared and are both
\* in the table, at different pointers
C30_Witness ==
    /\ Len(globals) >= 2
    /\ globals[1].name = globals[2].name
    /\ work = <<>>

====
